---- MODULE Spec2Model ----
(***************************************************************************)
(* Model of src/src/cache/nixos.rs of nix-data: the nixospkgs cache cycle  *)
(* (version resolution, freshness check, fetch, store rebuild, bulk        *)
(* imports through the sqlite3 process, version marker), nixosoptions      *)
(* (the same cycle over a downloaded file), createdb (the rebuild of a     *)
(* store from a decoded document) and getnixospkgs (collection of          *)
(* declared attributes and their point lookups).                           *)
(*                                                                         *)
(* Strings that the code slices or strips are sequences of one-character   *)
(* strings; all other strings are TLA+ strings.  An Option<T> is a         *)
(* sequence of length 0 (None) or 1 (Some).                                *)
(***************************************************************************)
EXTENDS Naturals, Sequences, FiniteSets

VARIABLES
    cycle,      \* per caller: the position and locals of its nixospkgs() call
    marker,     \* the file CACHEDIR/nixospkgs.ver
    artifact,   \* the file CACHEDIR/nixospkgs.db
    prev,       \* summary of the nixospkgs() call that returned last
    calls,      \* number of calls made by callers that do not wait
    getpkgs,    \* position and locals of a getnixospkgs() call
    optcall,    \* position and locals of a nixosoptions() call
    optmarker,  \* the file CACHEDIR/nixosoptions.ver
    optfile,    \* the file CACHEDIR/nixosoptions.json
    build,      \* per caller: the position and locals of its createdb() call
    dbfile,     \* the file at the path dbfile that createdb() is given
    conv        \* an input of a conversion of the cycle, and its output

optvars == <<optcall, optmarker, optfile>>
dbvars == <<build, dbfile>>
vars == <<cycle, marker, artifact, prev, calls, getpkgs, optvars, dbvars, conv>>

\* The calls of nixospkgs() that callers make without waiting for one another.
MaxCalls == 2

\* The callers of nixospkgs().
Procs == {"c1", "c2"}

\* The callers of createdb() on the path dbfile.
Builders == {"b1", "b2"}

None == <<>>
Some(x) == <<x>>

-----------------------------------------------------------------------------
(* Version strings                                                         *)

Rolling == <<"2", "2", ".", "1", "1">>
Unstable == <<"u", "n", "s", "t", "a", "b", "l", "e">>
NixosPrefix == <<"n", "i", "x", "o", "s", "-">>

VerA == <<"2", "3", ".", "0", "5">>
VerB == <<"2", "3", ".", "1", "1">>

\* Outputs of the nixos-version command: a rolling release, a stable release
\* and an output shorter than five bytes.
VersionOutputs ==
    { Rolling \o <<"p", "r", "e">>,
      VerA \o <<".", "1">>,
      <<"2", "3">> }

\* numver / version of nixospkgs: the first five bytes, the rolling release
\* mapped to "unstable".
Channel(raw) ==
    LET numver == SubSeq(raw, 1, 5)
    IN  IF numver = Rolling THEN Unstable ELSE numver

\* Final locations of the version redirect, as their path segments; base is
\* FALSE for a location that cannot be a base (path_segments() is None).
Locations ==
    { [base |-> TRUE,  segs |-> <<NixosPrefix \o VerA>>],
      [base |-> TRUE,  segs |-> <<<<"r">>, VerB>>],
      [base |-> FALSE, segs |-> <<>>] }

\* resp.url().path_segments()...last(): None when there is no segment.
LastSegment(loc) ==
    IF loc.base /\ Len(loc.segs) > 0 THEN Some(loc.segs[Len(loc.segs)]) ELSE None

\* latestnixosver.strip_prefix("nixos-").unwrap_or(&latestnixosver)
StripPrefix(s) ==
    IF Len(s) >= Len(NixosPrefix) /\ SubSeq(s, 1, Len(NixosPrefix)) = NixosPrefix
    THEN SubSeq(s, Len(NixosPrefix) + 1, Len(s))
    ELSE s

\* latestnixosver of nixospkgs, for a location that has a last segment.
Latest(loc) == StripPrefix(LastSegment(loc)[1])

\* latestnixosver of nixosoptions, for a location that has a last segment.
OptLatest(loc) == LastSegment(loc)[1]

-----------------------------------------------------------------------------
(* Index documents                                                         *)

NoMeta ==
    [broken |-> None, insecure |-> None, unsupported |-> None, unfree |-> None,
     description |-> None, longdescription |-> None, homepage |-> None,
     maintainers |-> None, position |-> None, license |-> None,
     platforms |-> None]

FullMeta ==
    [broken |-> Some(TRUE), insecure |-> Some(FALSE), unsupported |-> Some(FALSE),
     unfree |-> Some(TRUE), description |-> Some("d"),
     longdescription |-> Some("ld"),
     homepage |-> Some([kind |-> "List", items |-> <<"https://x", "https://y">>]),
     maintainers |-> Some(<<"alice">>), position |-> Some("p.nix:1"),
     license |-> Some(<<"mit">>), platforms |-> Some(<<"x86_64-linux">>)]

\* The decoded packages.json (NixosPkgList.packages) published for a version.
Index(ver) ==
    IF ver = VerA
    THEN [k \in {"pkgA", "pkgB"} |->
            IF k = "pkgA"
            THEN [system |-> "x86_64-linux", pname |-> "a", version |-> "1.0",
                  meta |-> NoMeta]
            ELSE [system |-> "x86_64-linux", pname |-> "b", version |-> "2.0",
                  meta |-> FullMeta]]
    ELSE [k \in {"pkgA"} |->
            [system |-> "aarch64-linux", pname |-> "a", version |-> "1.1",
             meta |-> [NoMeta EXCEPT
                         !.homepage = Some([kind |-> "Single", text |-> "https://a"]),
                         !.broken = Some(FALSE)]]]

EmptyDoc == <<>>

\* Response bodies of the index fetch: the document of a version, or a body
\* that does not decode as NixosPkgList.
Garbled == [wellformed |-> FALSE, ver |-> <<>>]
Bodies == { [wellformed |-> TRUE, ver |-> v] : v \in {VerA, VerB} } \cup {Garbled}

\* Flag with an absent value written as 1.
FlagAbsentIsOne(o) == IF o = None \/ o[1] THEN 1 ELSE 0

\* if let Some(x) = flag { if x { 1 } else { 0 } } else { 0 }
Flag(o) == IF o # None /\ o[1] THEN 1 ELSE 0

\* csv serialization of an Option<String>: None is the empty field.
CsvOpt(o) == IF o = None THEN "" ELSE o[1]

\* data.meta.homepage.as_ref().and_then(...)
Homepage(o) ==
    IF o = None THEN None
    ELSE IF o[1].kind = "List"
         THEN (IF Len(o[1].items) > 0 THEN Some(o[1].items[1]) ELSE None)
         ELSE Some(o[1].text)

\* serde_json::to_string of the structured values the documents carry.
ToJson(v) ==
    CASE v = <<"alice">> -> "[\"alice\"]"
      [] v = <<"mit">> -> "[\"mit\"]"
      [] v = <<"x86_64-linux">> -> "[\"x86_64-linux\"]"
      [] OTHER -> "[]"

JsonOpt(o) == IF o = None THEN None ELSE Some(ToJson(o[1]))

\* The csv record of the pkgs import.
PkgRow(pkg, data) == <<pkg, data.system, data.pname, data.version>>

\* The csv record of the meta import.
MetaRow(pkg, data) ==
    <<pkg, Flag(data.meta.broken), Flag(data.meta.insecure),
      Flag(data.meta.unsupported), Flag(data.meta.unfree),
      CsvOpt(data.meta.description), CsvOpt(data.meta.longdescription),
      CsvOpt(Homepage(data.meta.homepage)), CsvOpt(JsonOpt(data.meta.maintainers)),
      CsvOpt(data.meta.position), CsvOpt(JsonOpt(data.meta.license)),
      CsvOpt(JsonOpt(data.meta.platforms))>>

PkgRows(doc) == { PkgRow(k, doc[k]) : k \in DOMAIN doc }
MetaRows(doc) == { MetaRow(k, doc[k]) : k \in DOMAIN doc }

-----------------------------------------------------------------------------
(* The store file                                                          *)

NoArtifact == [exists |-> FALSE, schema |-> {}, pkgs |-> {}, meta |-> {}]
NoMarker == [exists |-> FALSE, content |-> <<>>]

\* The five statements nixospkgs executes on the new database, in order.
Schema ==
    << [name |-> "pkgs", kind |-> "table", tbl |-> "pkgs",
        column |-> "attribute", unique |-> TRUE],
       [name |-> "meta", kind |-> "table", tbl |-> "meta",
        column |-> "attribute", unique |-> TRUE],
       [name |-> "attributes", kind |-> "index", tbl |-> "pkgs",
        column |-> "attribute", unique |-> TRUE],
       [name |-> "metaattributes", kind |-> "index", tbl |-> "meta",
        column |-> "attribute", unique |-> TRUE],
       [name |-> "pnames", kind |-> "index", tbl |-> "pkgs",
        column |-> "pname", unique |-> FALSE] >>

Names(schema) == { o.name : o \in schema }

HasTable(art, table) ==
    \E o \in art.schema : o.kind = "table" /\ o.name = table

UniqueKey(art, table) ==
    \E o \in art.schema : o.tbl = table /\ o.column = "attribute" /\ o.unique

TableOf(art, table) == IF table = "pkgs" THEN art.pkgs ELSE art.meta

WithTable(art, table, rows) ==
    IF table = "pkgs" THEN [art EXCEPT !.pkgs = rows] ELSE [art EXCEPT !.meta = rows]

\* Rows accepted by a table: a row whose attribute is already present is
\* rejected when the attribute column is unique.
Insert(art, table, rows) ==
    LET old == TableOf(art, table)
        new == IF UniqueKey(art, table)
               THEN { r \in rows : \A e \in old : e[1] # r[1] }
               ELSE rows
    IN  WithTable(art, table, old \cup new)

\* sqlite3 -csv FILE ".import '|cat -' TABLE": the file is created when it
\* is missing; a missing table is created from the first record h, which is
\* then taken as the header.
Load(art, table, rows, h) ==
    LET file == IF art.exists THEN art ELSE [NoArtifact EXCEPT !.exists = TRUE]
    IN  IF HasTable(file, table) \/ rows = {}
        THEN Insert(file, table, rows)
        ELSE Insert([file EXCEPT !.schema = @ \cup
                        {[name |-> table, kind |-> "table", tbl |-> table,
                          column |-> "", unique |-> FALSE]}],
                    table, rows \ {h})

\* The records a cycle writes to the import of a table.
ImportRows(table, doc) == IF table = "pkgs" THEN PkgRows(doc) ELSE MetaRows(doc)

-----------------------------------------------------------------------------
(* nixospkgs()                                                             *)

NoPrev == [ok |-> FALSE, broken |-> FALSE, latest |-> <<>>]

\* What the next call is compared with when a call returns: whether it
\* returned a path (and for which version), and whether it failed after it
\* had removed the old store and before it wrote the marker.
Summary(rec) ==
    LET ok == rec.result \in {"ok", "hit"}
    IN  [ok |-> ok,
         broken |-> ~ok /\ rec.removed /\ ~rec.wrote,
         latest |-> IF ok THEN rec.latest ELSE <<>>]

\* The locals of a call, with the record of what it has done: the calls it
\* made (resolves, fetches), the stages it entered (trace), the outcome of
\* its imports, and, for a call made after the previous call has returned
\* (succ), what made the cache stale (staleBy), what the previous call was
\* (afterBroken, afterSame) and whether one of its steps has changed the
\* store file (dirtyStore) or the content of the marker file (dirtyMarker)
\* since it started.  While the call executes its statements, stmt is the
\* statement of Schema that comes next and conn says which file its pool
\* is connected to: the file at the path ("path") or a file that another
\* call has removed from the path since ("orphan"), whose objects are the
\* names in orphan.
IdleCycle ==
    [pc |-> "idle", result |-> "none", channel |-> <<>>, latest |-> <<>>,
     body |-> None, doc |-> EmptyDoc, resolves |-> 0, fetches |-> 0,
     trace |-> <<>>, impPkgs |-> "none", impMeta |-> "none",
     fresh |-> FALSE, staleBy |-> "none", removed |-> FALSE, wrote |-> FALSE,
     overlapped |-> FALSE, complete |-> FALSE,
     dirtyStore |-> FALSE, dirtyMarker |-> FALSE,
     stmt |-> 0, conn |-> "none", orphan |-> {},
     succ |-> FALSE, afterBroken |-> FALSE, afterSame |-> FALSE]

\* After with the marker write left out: the call returns Ok once the meta
\* import is done.
AfterSkipMarker(stage) ==
    CASE stage = "start" -> "resolve"
      [] stage = "resolve" -> "check"
      [] stage = "check" -> "fetch"
      [] stage = "fetch" -> "delete"
      [] stage = "delete" -> "create"
      [] stage = "create" -> "decode"
      [] stage = "decode" -> "pkgs"
      [] stage = "pkgs" -> "meta"
      [] stage = "meta" -> "done"
      [] stage = "marker" -> "done"

\* After with the old store removed before the index is fetched.
AfterDeleteFirst(stage) ==
    CASE stage = "start" -> "resolve"
      [] stage = "resolve" -> "check"
      [] stage = "check" -> "delete"
      [] stage = "delete" -> "fetch"
      [] stage = "fetch" -> "create"
      [] stage = "create" -> "decode"
      [] stage = "decode" -> "pkgs"
      [] stage = "pkgs" -> "meta"
      [] stage = "meta" -> "marker"
      [] stage = "marker" -> "done"

\* The statement that follows a completed stage of nixospkgs.
After(stage) ==
    CASE stage = "start" -> "resolve"
      [] stage = "resolve" -> "check"
      [] stage = "check" -> "fetch"
      [] stage = "fetch" -> "delete"
      [] stage = "delete" -> "create"
      [] stage = "create" -> "decode"
      [] stage = "decode" -> "pkgs"
      [] stage = "pkgs" -> "meta"
      [] stage = "meta" -> "marker"
      [] stage = "marker" -> "done"

\* IsFresh with the comparison of the versions negated.
IsFreshNegated(prevver, latest, exists) ==
    prevver # None /\ prevver[1] # latest /\ exists

\* IsFresh with the test of the store file negated.
IsFreshNoStore(prevver, latest, exists) ==
    prevver # None /\ prevver[1] = latest /\ ~exists

\* IsFresh with a marker that cannot be read taken as fresh.
IsFreshNoMarker(prevver, latest, exists) ==
    (prevver = None \/ prevver[1] = latest) /\ exists

\* if let Ok(prevver) = read_to_string(marker) { prevver == latest && exists }
IsFresh(prevver, latest, exists) ==
    prevver # None /\ prevver[1] = latest /\ exists

Running(rec) == rec.pc # "idle"

\* Between the removal of the old store and the write of the marker.
InWindow(rec) ==
    rec.pc \in {"create", "connect", "ddl", "decode", "pkgs", "meta", "marker"}

\* A return; the locals end with the call, and the version stays with the
\* path that a call returns.
Ret(rec, res) ==
    [rec EXCEPT !.pc = "done", !.result = res, !.channel = <<>>, !.doc = EmptyDoc,
                !.latest = IF res \in {"ok", "hit"} THEN @ ELSE <<>>,
                !.stmt = 0, !.conn = "none", !.orphan = {}]

Goto(rec, stage) ==
    IF After(stage) = "done" THEN Ret(rec, "ok") ELSE [rec EXCEPT !.pc = After(stage)]

Staged(rec) == [rec EXCEPT !.trace = Append(@, rec.pc)]

\* Caller p moves to rec, in a step that sets the files as the primed
\* variables say; a call made in succession that returns becomes the
\* previous call.  When the step removes the store file, the pool of a
\* call that is connected to it keeps the removed file.
Move(p, rec, n) ==
    /\ cycle' = [q \in Procs |->
                   LET r == IF q = p
                            THEN [rec EXCEPT
                                    !.dirtyStore =
                                        @ \/ (rec.succ /\ artifact' # artifact),
                                    !.dirtyMarker =
                                        @ \/ (/\ rec.succ
                                               /\ marker'.content # marker.content)]
                            ELSE IF /\ artifact.exists /\ ~artifact'.exists
                                    /\ cycle[q].conn = "path"
                                 THEN [cycle[q] EXCEPT
                                         !.conn = "orphan",
                                         !.orphan = Names(artifact.schema)]
                                 ELSE cycle[q]
                       others == { IF o = p THEN rec ELSE cycle[o] :
                                     o \in Procs \ {q} }
                   IN  [r EXCEPT !.overlapped =
                          @ \/ (InWindow(r) /\ \E o \in others : InWindow(o))]]
    /\ prev' = IF rec.pc = "done" /\ rec.succ THEN Summary(rec) ELSE prev
    /\ calls' = n
    /\ UNCHANGED <<getpkgs, optvars, dbvars, conv>>

Step(p, rec) == Move(p, rec, calls)

\* Lines 21-32: nixos-version, the channel, the cache directory.
StartBody(p, n, succ) ==
    LET rec == [IdleCycle EXCEPT !.succ = succ, !.afterBroken = succ /\ prev.broken]
    IN  /\ cycle[p].pc = "idle"
        /\ UNCHANGED <<marker, artifact>>
        /\ \/ Move(p, Ret(rec, "err"), n)
           \/ \E raw \in VersionOutputs :
                IF Len(raw) < 5
                THEN Move(p, Ret(rec, "panic"), n)
                ELSE Move(p, Goto([rec EXCEPT !.channel = Channel(raw)], "start"), n)

\* A caller that calls when no other call is running.
Start(p) ==
    /\ \A q \in Procs : ~Running(cycle[q])
    /\ optcall.pc = "idle"
    /\ \A b \in Builders : build[b].pc = "idle"
    /\ StartBody(p, calls, TRUE)

\* The caller takes the value its call returned.
Return(p) ==
    /\ cycle[p].pc = "done"
    /\ cycle' = [cycle EXCEPT ![p] = IdleCycle]
    /\ UNCHANGED <<marker, artifact, prev, calls, getpkgs, optvars, dbvars, conv>>

\* A caller that calls whether or not another call is running.
StartConcurrent(p) ==
    /\ calls < MaxCalls
    /\ StartBody(p, calls + 1, FALSE)

\* Lines 34-44: follow the version redirect.
Resolve(p) ==
    LET rec == [cycle[p] EXCEPT !.resolves = @ + 1]
    IN  /\ cycle[p].pc = "resolve"
        /\ UNCHANGED <<marker, artifact>>
        /\ \/ Step(p, Ret(rec, "err"))
           \/ \E loc \in Locations :
                IF LastSegment(loc) = None
                THEN Step(p, Ret(rec, "err"))
                ELSE LET latest == Latest(loc)
                     IN  Step(p, Goto([rec EXCEPT
                                         !.latest = latest,
                                         !.afterSame = /\ rec.succ /\ prev.ok
                                                       /\ prev.latest = latest],
                                      "resolve"))

\* Lines 46-52: the freshness check.
Check(p) ==
    LET rec == cycle[p]
        prevver == IF marker.exists THEN Some(marker.content) ELSE None
    IN  /\ rec.pc = "check"
        /\ UNCHANGED <<marker, artifact>>
        /\ IF IsFresh(prevver, rec.latest, artifact.exists)
           THEN Step(p, Ret([rec EXCEPT !.fresh = TRUE], "hit"))
           ELSE Step(p, Goto([rec EXCEPT !.staleBy =
                                IF ~rec.succ THEN "none"
                                ELSE IF ~marker.exists THEN "nomarker"
                                ELSE IF marker.content # rec.latest THEN "mismatch"
                                ELSE "noartifact"],
                             "check"))

\* Lines 54-62 and 233-235: the index fetch.
Fetch(p) ==
    LET rec == Staged([cycle[p] EXCEPT !.fetches = @ + 1, !.channel = <<>>])
    IN  /\ cycle[p].pc = "fetch"
        /\ UNCHANGED <<marker, artifact>>
        /\ \/ Step(p, Ret(rec, "err"))
           \/ \E b \in Bodies : Step(p, Goto([rec EXCEPT !.body = Some(b)], "fetch"))

\* RemoveOld that waits while another call is between its removal of the
\* store and its marker write.
RemoveOldExclusive(p) ==
    LET rec == Staged(cycle[p])
    IN  /\ cycle[p].pc = "delete"
        /\ \A q \in Procs \ {p} : ~InWindow(cycle[q])
        /\ UNCHANGED marker
        /\ IF artifact.exists
           THEN \/ /\ artifact' = NoArtifact
                   /\ Step(p, Goto([rec EXCEPT !.removed = TRUE], "delete"))
                \/ /\ UNCHANGED artifact
                   /\ Step(p, Ret(rec, "err"))
           ELSE /\ UNCHANGED artifact
                /\ Step(p, Goto(rec, "delete"))

\* Lines 66-68: remove the old store.
RemoveOld(p) ==
    LET rec == Staged(cycle[p])
    IN  /\ cycle[p].pc = "delete"
        /\ UNCHANGED marker
        /\ IF artifact.exists
           THEN \/ /\ artifact' = NoArtifact
                   /\ Step(p, Goto([rec EXCEPT !.removed = TRUE], "delete"))
                \/ /\ UNCHANGED artifact
                   /\ Step(p, Ret(rec, "err"))
           ELSE /\ UNCHANGED artifact
                /\ Step(p, Goto(rec, "delete"))

\* Line 69: Sqlite::create_database(..).await makes the file when it is
\* missing and leaves an existing file as it is.
CreateDatabase(p) ==
    LET rec == Staged(cycle[p])
        file == IF artifact.exists THEN artifact
                ELSE [NoArtifact EXCEPT !.exists = TRUE]
    IN  /\ cycle[p].pc = "create"
        /\ UNCHANGED marker
        /\ \/ /\ UNCHANGED artifact
              /\ Step(p, Ret(rec, "err"))
           \/ /\ artifact' = file
              /\ Step(p, [rec EXCEPT !.pc = "connect"])

\* Line 70: SqlitePool::connect(..).await opens the file at the path; it
\* does not create a missing file.
Connect(p) ==
    LET rec == cycle[p]
    IN  /\ rec.pc = "connect"
        /\ UNCHANGED <<marker, artifact>>
        /\ \/ Step(p, Ret(rec, "err"))
           \/ /\ artifact.exists
              /\ Step(p, [rec EXCEPT !.pc = "ddl", !.conn = "path", !.stmt = 1])

\* Lines 71-126: one sqlx::query(..).execute(&pool).await, on the file the
\* pool is connected to.  The statement fails when its object exists
\* already, and it can fail otherwise.
Execute(p) ==
    LET rec == cycle[p]
        s == Schema[rec.stmt]
        onpath == rec.conn = "path"
        present == IF onpath THEN s.name \in Names(artifact.schema)
                   ELSE s.name \in rec.orphan
        made == IF onpath THEN rec ELSE [rec EXCEPT !.orphan = @ \cup {s.name}]
    IN  /\ rec.pc = "ddl"
        /\ UNCHANGED marker
        /\ \/ /\ UNCHANGED artifact
              /\ Step(p, Ret(rec, "err"))
           \/ /\ ~present
              /\ artifact' = IF onpath
                             THEN [artifact EXCEPT !.schema = @ \cup {s}]
                             ELSE artifact
              /\ IF rec.stmt = Len(Schema)
                 THEN Step(p, Goto([made EXCEPT !.stmt = 0, !.conn = "none",
                                                !.orphan = {}], "create"))
                 ELSE Step(p, [made EXCEPT !.stmt = @ + 1])

\* Lines 69-126: create the database, connect to it and execute the
\* statements of Schema, one await at a time.
CreateStore(p) == CreateDatabase(p) \/ Connect(p) \/ Execute(p)

\* Lines 128-129: decode the response body.
Decode(p) ==
    LET rec == Staged(cycle[p])
    IN  /\ cycle[p].pc = "decode"
        /\ UNCHANGED <<marker, artifact>>
        /\ IF rec.body[1].wellformed
           THEN Step(p, Goto([rec EXCEPT !.doc = Index(rec.body[1].ver),
                                         !.body = None], "decode"))
           ELSE Step(p, Ret(rec, "panic"))

\* The outcome of one import on the record of the call.
Imported(rec, table, oc) ==
    IF table = "pkgs" THEN [rec EXCEPT !.impPkgs = oc] ELSE [rec EXCEPT !.impMeta = oc]

\* Lines 131-149 and 150-229: write the records to a sqlite3 process and
\* wait for it.  spawn, write_all and wait can fail; the exit status of the
\* process is not looked at.  The second branch is a process that fails
\* before it has opened the file: a file that is missing stays missing.
Import(p, table) ==
    LET rec == Staged(cycle[p])
        rows == ImportRows(table, rec.doc)
    IN  /\ cycle[p].pc = table
        /\ UNCHANGED marker
        /\ \/ /\ UNCHANGED artifact
              /\ Step(p, Ret(Imported(rec, table, "nospawn"), "err"))
           \/ /\ UNCHANGED artifact
              /\ \/ Step(p, Ret(Imported(rec, table, "pipefail"), "err"))
                 \/ Step(p, Goto(Imported(rec, table, "exitfail"), table))
           \/ \E sub \in SUBSET rows, h \in rows, oc \in {"ok", "exitfail", "pipefail"} :
                /\ oc = "ok" => sub = rows
                /\ (artifact.exists /\ HasTable(artifact, table)) =>
                      h = CHOOSE r \in rows : TRUE
                /\ artifact' = Load(artifact, table, sub, h)
                /\ IF oc = "pipefail"
                   THEN Step(p, Ret(Imported(rec, table, oc), "err"))
                   ELSE Step(p, Goto(Imported(rec, table, oc), table))

ImportPkgs(p) == Import(p, "pkgs")
ImportMeta(p) == Import(p, "meta")

\* Lines 230-232: File::create truncates the marker, write_all fills it.
WriteMarker(p) ==
    LET rec == Staged(cycle[p])
        done == [rec EXCEPT !.wrote = TRUE,
                            !.complete = /\ artifact.exists
                                         /\ artifact.pkgs = PkgRows(rec.doc)
                                         /\ artifact.meta = MetaRows(rec.doc)]
    IN  /\ cycle[p].pc = "marker"
        /\ UNCHANGED artifact
        /\ \/ /\ UNCHANGED marker
              /\ Step(p, Ret(rec, "err"))
           \/ /\ marker' = [exists |-> TRUE, content |-> <<>>]
              /\ Step(p, Ret(rec, "err"))
           \/ /\ marker' = [exists |-> TRUE, content |-> rec.latest]
              /\ Step(p, Goto(done, "marker"))

-----------------------------------------------------------------------------
(* nixosoptions()                                                          *)

NoFile == [exists |-> FALSE, body |-> None, whole |-> FALSE]

IdleOptions ==
    [pc |-> "idle", result |-> "none", channel |-> <<>>, latest |-> <<>>,
     body |-> None, resolves |-> 0, fetches |-> 0, wrote |-> FALSE]

OptRet(rec, res) == [rec EXCEPT !.pc = "done", !.result = res, !.channel = <<>>]

OptStep(rec) ==
    /\ optcall' = rec
    /\ UNCHANGED <<cycle, marker, artifact, prev, calls, getpkgs, dbvars, conv>>

\* Lines 243-254: nixos-version, the channel, the cache directory; the call
\* is made when no other call is running.
OptStart ==
    /\ optcall.pc = "idle"
    /\ \A q \in Procs : ~Running(cycle[q])
    /\ UNCHANGED <<optmarker, optfile>>
    /\ \/ OptStep(OptRet(IdleOptions, "err"))
       \/ \E raw \in VersionOutputs :
            IF Len(raw) < 5
            THEN OptStep(OptRet(IdleOptions, "panic"))
            ELSE OptStep([IdleOptions EXCEPT !.pc = "resolve",
                                            !.channel = Channel(raw)])

\* The caller takes the value its call returned.
OptReturn ==
    /\ optcall.pc = "done"
    /\ UNCHANGED <<optmarker, optfile>>
    /\ OptStep(IdleOptions)

\* Lines 256-265: follow the version redirect; the last segment is the
\* version as it is.
OptResolve ==
    LET rec == [optcall EXCEPT !.resolves = @ + 1]
    IN  /\ optcall.pc = "resolve"
        /\ UNCHANGED <<optmarker, optfile>>
        /\ \/ OptStep(OptRet(rec, "err"))
           \/ \E loc \in Locations :
                IF LastSegment(loc) = None
                THEN OptStep(OptRet(rec, "err"))
                ELSE OptStep([rec EXCEPT !.pc = "check",
                                        !.latest = OptLatest(loc)])

\* Lines 267-274: the freshness check.
OptCheck ==
    LET rec == optcall
        prevver == IF optmarker.exists THEN Some(optmarker.content) ELSE None
    IN  /\ rec.pc = "check"
        /\ UNCHANGED <<optmarker, optfile>>
        /\ IF IsFresh(prevver, rec.latest, optfile.exists)
           THEN OptStep(OptRet(rec, "hit"))
           ELSE OptStep([rec EXCEPT !.pc = "fetch"])

\* Lines 276-284 and 290-292: the fetch of options.json.br.
OptFetch ==
    LET rec == [optcall EXCEPT !.fetches = @ + 1, !.channel = <<>>]
    IN  /\ optcall.pc = "fetch"
        /\ UNCHANGED <<optmarker, optfile>>
        /\ \/ OptStep(OptRet(rec, "err"))
           \/ \E b \in Bodies : OptStep([rec EXCEPT !.pc = "download", !.body = Some(b)])

\* Lines 285-286: File::create truncates the file, copy_to fills it with the
\* body as it is.
OptDownload ==
    LET rec == [optcall EXCEPT !.body = None]
    IN  /\ optcall.pc = "download"
        /\ UNCHANGED optmarker
        /\ \/ /\ UNCHANGED optfile
              /\ OptStep(OptRet(rec, "err"))
           \/ /\ optfile' = [exists |-> TRUE, body |-> optcall.body, whole |-> FALSE]
              /\ OptStep(OptRet(rec, "err"))
           \/ /\ optfile' = [exists |-> TRUE, body |-> optcall.body, whole |-> TRUE]
              /\ OptStep([rec EXCEPT !.pc = "marker"])

\* Lines 287-289 and 294: the marker, then Ok.
OptWriteMarker ==
    LET rec == optcall
    IN  /\ rec.pc = "marker"
        /\ UNCHANGED optfile
        /\ \/ /\ UNCHANGED optmarker
              /\ OptStep(OptRet(rec, "err"))
           \/ /\ optmarker' = [exists |-> TRUE, content |-> <<>>]
              /\ OptStep(OptRet(rec, "err"))
           \/ /\ optmarker' = [exists |-> TRUE, content |-> rec.latest]
              /\ OptStep(OptRet([rec EXCEPT !.wrote = TRUE], "ok"))

OptionsStep ==
    \/ OptStart
    \/ OptReturn
    \/ OptResolve
    \/ OptCheck
    \/ OptFetch
    \/ OptDownload
    \/ OptWriteMarker

-----------------------------------------------------------------------------
(* getnixospkgs()                                                          *)

\* The longest list of declaration sources.
MaxPaths == 2

\* A declaration source: whether fs::read_to_string can read it, and what
\* getarrvals returns for "environment.systemPackages" (None for Err).
Sources ==
    { [readable |-> FALSE, vals |-> None],
      [readable |-> TRUE,  vals |-> None],
      [readable |-> TRUE,  vals |-> Some(<<"pkgA", "pkgC">>)],
      [readable |-> TRUE,  vals |-> Some(<<"pkgB", "pkgA", "pkgB">>)],
      [readable |-> TRUE,  vals |-> Some(<<>>)] }

PathLists == UNION { [1..n -> Sources] : n \in 1..MaxPaths }

\* Rows (attribute, pname, version) of the pkgs table of the store that
\* flakespkgs() or legacypkgs() returns; a table that sqlite3 created for an
\* import has no unique attribute.
StoreRows ==
    { <<"pkgA", "a", "1.0">>, <<"pkgB", "b", "2.0">>, <<"pkgB", "b", "2.1">> }

Stores == SUBSET StoreRows

\* filepkgs.into_iter().collect::<HashSet<_>>()
ToSet(list) == { list[i] : i \in 1..Len(list) }

\* SELECT pname, version FROM pkgs WHERE attribute = $1
Select(rows, pkg) == { <<r[2], r[3]>> : r \in { x \in rows : x[1] = pkg } }

\* Single that accepts every non-empty result.
SingleOrMore(n) == n >= 1

\* if sqlout.len() == 1
Single(n) == n = 1

NoGetpkgs == [pc |-> "off"]

StartGetpkgs(paths, db) ==
    [pc |-> "collect", paths |-> paths, i |-> 1, allpkgs |-> {}, db |-> db,
     todo |-> {}, out |-> {}, result |-> "none", failed |-> "none"]

Fail(g, stage) == [g EXCEPT !.pc = "done", !.result = "err", !.failed = stage]

KeepCache == UNCHANGED <<cycle, marker, artifact, prev, calls, optvars, dbvars, conv>>

\* Lines 306-318: one iteration of the loop over paths.
Collect ==
    LET g == getpkgs
        src == g.paths[g.i]
        next == [g EXCEPT !.i = @ + 1]
    IN  /\ g.pc = "collect"
        /\ g.i <= Len(g.paths)
        /\ KeepCache
        /\ getpkgs' =
              IF ~src.readable THEN Fail(g, "collect")
              ELSE IF src.vals = None THEN next
              ELSE [next EXCEPT !.allpkgs = @ \cup ToSet(src.vals[1])]

\* Lines 319-322: flakespkgs().await? or legacypkgs().await? yields the path
\* of the store of the channel, or an error that ends the call.
StorePath ==
    LET g == getpkgs
    IN  /\ g.pc = "collect"
        /\ g.i > Len(g.paths)
        /\ KeepCache
        /\ \/ getpkgs' = Fail(g, "open")
           \/ getpkgs' = [g EXCEPT !.pc = "connect"]

\* Lines 323-324: SqlitePool::connect(..).await? on the path obtained; the
\* loop over pkgs starts once the pool is connected.
ConnectStore ==
    LET g == getpkgs
    IN  /\ g.pc = "connect"
        /\ KeepCache
        /\ \/ getpkgs' = Fail(g, "open")
           \/ getpkgs' = [g EXCEPT !.pc = "lookup", !.todo = g.allpkgs]

\* Lines 319-324: the store of the channel and the connection to it, one
\* step per await.
OpenStore == StorePath \/ ConnectStore

\* Lines 325-339: one iteration of the loop over pkgs.
Lookup ==
    LET g == getpkgs
    IN  /\ g.pc = "lookup"
        /\ g.todo # {}
        /\ KeepCache
        /\ \E pkg \in g.todo :
              LET sqlout == Select(g.db, pkg)
                  rest == [g EXCEPT !.todo = @ \ {pkg}]
              IN  \/ getpkgs' = Fail(g, "lookup")
                  \/ /\ ~Single(Cardinality(sqlout))
                     /\ getpkgs' = rest
                  \/ /\ Single(Cardinality(sqlout))
                     /\ \E row \in sqlout :
                          getpkgs' = [rest EXCEPT !.out =
                                        { e \in @ : e[1] # pkg } \cup {<<pkg, row[2]>>}]

\* Line 340: Ok(out).
Finish ==
    LET g == getpkgs
    IN  /\ g.pc = "lookup"
        /\ g.todo = {}
        /\ KeepCache
        /\ getpkgs' = [g EXCEPT !.pc = "done", !.result = "ok"]

-----------------------------------------------------------------------------
(* The conversions of the cycle, applied to one input                      *)

Flags == {None, Some(TRUE), Some(FALSE)}

Homepages ==
    { None,
      Some([kind |-> "List", items |-> <<"https://x", "https://y">>]),
      Some([kind |-> "List", items |-> <<>>]),
      Some([kind |-> "Single", text |-> "https://a"]) }

\* The meta of an entry of packages.json: every value of the four flags
\* and of the homepage, the description absent or present, and the other
\* fields all absent or all present.
Metas ==
    { [(IF rest THEN FullMeta ELSE NoMeta) EXCEPT
          !.broken = b, !.insecure = i, !.unsupported = u, !.unfree = f,
          !.homepage = h, !.description = d] :
        b \in Flags, i \in Flags, u \in Flags, f \in Flags,
        h \in Homepages, d \in {None, Some("d")}, rest \in BOOLEAN }

\* Outputs of nixos-version, with one of exactly five bytes and one of
\* another stable release.
RawOutputs == VersionOutputs \cup {Rolling, VerB \o <<"p", "r", "e">>}

\* Final locations of the redirect, with a base that has an empty path
\* (path_segments() yields the one segment "") and locations whose last
\* segment has the prefix after other segments.
RedirectLocations ==
    Locations \cup
    { [base |-> TRUE, segs |-> <<<<>>>>],
      [base |-> TRUE, segs |-> <<<<"r">>, NixosPrefix \o VerB>>],
      [base |-> TRUE, segs |-> <<NixosPrefix>>] }

NoConv == [pc |-> "off"]

ConvInput(fn, arg) ==
    [pc |-> "in", fn |-> fn, arg |-> arg, out |-> <<>>, failed |-> FALSE]

ConvInputs ==
    { ConvInput("metarow", [system |-> "x86_64-linux", pname |-> "a",
                            version |-> "1.0", meta |-> m]) : m \in Metas }
    \cup { ConvInput("channel", raw) : raw \in RawOutputs }
    \cup { ConvInput(fn, loc) : fn \in {"latest", "optlatest"},
                               loc \in RedirectLocations }

ConvAt(fn) == conv.pc = "in" /\ conv.fn = fn

ConvStep(out, failed) ==
    /\ conv' = [conv EXCEPT !.pc = "out", !.out = out, !.failed = failed]
    /\ UNCHANGED <<cycle, marker, artifact, prev, calls, getpkgs, optvars, dbvars>>

\* Lines 151-218: the record of the meta import of one entry.
ConvMetaRow ==
    /\ ConvAt("metarow")
    /\ ConvStep(MetaRow("pkgA", conv.arg), FALSE)

\* Lines 22-27 and 244-249: the channel of an output of nixos-version; the
\* slice [0..5] panics on an output shorter than five bytes.
ConvChannel ==
    /\ ConvAt("channel")
    /\ IF Len(conv.arg) < 5
       THEN ConvStep(<<>>, TRUE)
       ELSE ConvStep(Channel(conv.arg), FALSE)

\* Lines 36-43: the version nixospkgs takes from the final location.
ConvLatest ==
    /\ ConvAt("latest")
    /\ IF LastSegment(conv.arg) = None
       THEN ConvStep(<<>>, TRUE)
       ELSE ConvStep(Latest(conv.arg), FALSE)

\* Lines 258-264: the version nixosoptions takes from the final location.
ConvOptLatest ==
    /\ ConvAt("optlatest")
    /\ IF LastSegment(conv.arg) = None
       THEN ConvStep(<<>>, TRUE)
       ELSE ConvStep(OptLatest(conv.arg), FALSE)

-----------------------------------------------------------------------------
(* createdb()                                                              *)

\* The three statements createdb executes on the new database, in order.
CreatedbSchema ==
    << [name |-> "pkgs", kind |-> "table", tbl |-> "pkgs",
        column |-> "attribute", unique |-> TRUE],
       [name |-> "attributes", kind |-> "index", tbl |-> "pkgs",
        column |-> "attribute", unique |-> TRUE],
       [name |-> "pnames", kind |-> "index", tbl |-> "pkgs",
        column |-> "attribute", unique |-> FALSE] >>

\* The decoded document (NixPkgList.packages) that createdb is given for a
\* version: the entries of the index with their pname and version.
PlainIndex(ver) ==
    [k \in DOMAIN Index(ver) |->
        [pname |-> Index(ver)[k].pname, version |-> Index(ver)[k].version]]

\* DbRow with the columns pname and version exchanged.
DbRowSwapped(pkg, data) == <<pkg, data.version, data.pname>>

\* The csv record of the import of createdb.
DbRow(pkg, data) == <<pkg, data.pname, data.version>>

DbRows(doc) == { DbRow(k, doc[k]) : k \in DOMAIN doc }

\* The locals of a call of createdb, with the record of what it has done:
\* whether it removed a file (removed), the rows of pkgs in the file it
\* removed (old), and the outcome of its import (imp); stmt, conn and
\* orphan are as in a call of nixospkgs.
IdleBuild ==
    [pc |-> "idle", result |-> "none", doc |-> EmptyDoc, imp |-> "none",
     removed |-> FALSE, old |-> {}, stmt |-> 0, conn |-> "none", orphan |-> {}]

BuildRet(rec, res) ==
    [rec EXCEPT !.pc = "done", !.result = res,
                !.stmt = 0, !.conn = "none", !.orphan = {}]

\* Caller b moves to rec, in a step that sets the file as dbfile' says.
\* When the step removes the file, the pool of a call that is connected to
\* it keeps the removed file.
BuildMove(b, rec, n) ==
    /\ build' = [q \in Builders |->
                   IF q = b THEN rec
                   ELSE IF /\ dbfile.exists /\ ~dbfile'.exists
                           /\ build[q].conn = "path"
                        THEN [build[q] EXCEPT !.conn = "orphan",
                                              !.orphan = Names(dbfile.schema)]
                        ELSE build[q]]
    /\ calls' = n
    /\ UNCHANGED <<cycle, marker, artifact, prev, getpkgs, optvars, conv>>

BuildStep(b, rec) == BuildMove(b, rec, calls)

\* Line 343: createdb is called with a decoded document.
BuildStartBody(b, n) ==
    /\ build[b].pc = "idle"
    /\ UNCHANGED dbfile
    /\ \E v \in {VerA, VerB} :
          BuildMove(b, [IdleBuild EXCEPT !.pc = "remove", !.doc = PlainIndex(v)], n)

\* A caller that calls when no other call is running.
BuildStart(b) ==
    /\ \A q \in Builders : build[q].pc = "idle"
    /\ \A q \in Procs : ~Running(cycle[q])
    /\ BuildStartBody(b, calls)

\* A caller that calls whether or not another call is running.
BuildStartConcurrent(b) ==
    /\ calls < MaxCalls
    /\ BuildStartBody(b, calls + 1)

\* The caller takes the value its call returned.
BuildReturn(b) ==
    /\ build[b].pc = "done"
    /\ UNCHANGED dbfile
    /\ BuildStep(b, IdleBuild)

\* Lines 345-347: remove the file when it exists.
BuildRemove(b) ==
    LET rec == build[b]
    IN  /\ rec.pc = "remove"
        /\ IF dbfile.exists
           THEN \/ /\ dbfile' = NoArtifact
                   /\ BuildStep(b, [rec EXCEPT !.pc = "create", !.removed = TRUE,
                                               !.old = dbfile.pkgs])
                \/ /\ UNCHANGED dbfile
                   /\ BuildStep(b, BuildRet(rec, "err"))
           ELSE /\ UNCHANGED dbfile
                /\ BuildStep(b, [rec EXCEPT !.pc = "create"])

\* Line 348: Sqlite::create_database(..).await makes the file when it is
\* missing and leaves an existing file as it is.
BuildCreateDatabase(b) ==
    LET rec == build[b]
        file == IF dbfile.exists THEN dbfile ELSE [NoArtifact EXCEPT !.exists = TRUE]
    IN  /\ rec.pc = "create"
        /\ \/ /\ UNCHANGED dbfile
              /\ BuildStep(b, BuildRet(rec, "err"))
           \/ /\ dbfile' = file
              /\ BuildStep(b, [rec EXCEPT !.pc = "connect"])

\* Line 349: SqlitePool::connect(..).await opens the file at the path; it
\* does not create a missing file.
BuildConnect(b) ==
    LET rec == build[b]
    IN  /\ rec.pc = "connect"
        /\ UNCHANGED dbfile
        /\ \/ BuildStep(b, BuildRet(rec, "err"))
           \/ /\ dbfile.exists
              /\ BuildStep(b, [rec EXCEPT !.pc = "ddl", !.conn = "path", !.stmt = 1])

\* Lines 350-375: one sqlx::query(..).execute(&pool).await, on the file the
\* pool is connected to.  The statement fails when its object exists
\* already, and it can fail otherwise.
BuildExecute(b) ==
    LET rec == build[b]
        s == CreatedbSchema[rec.stmt]
        onpath == rec.conn = "path"
        present == IF onpath THEN s.name \in Names(dbfile.schema)
                   ELSE s.name \in rec.orphan
        made == IF onpath THEN rec ELSE [rec EXCEPT !.orphan = @ \cup {s.name}]
    IN  /\ rec.pc = "ddl"
        /\ \/ /\ UNCHANGED dbfile
              /\ BuildStep(b, BuildRet(rec, "err"))
           \/ /\ ~present
              /\ dbfile' = IF onpath
                           THEN [dbfile EXCEPT !.schema = @ \cup {s}]
                           ELSE dbfile
              /\ IF rec.stmt = Len(CreatedbSchema)
                 THEN BuildStep(b, [made EXCEPT !.pc = "import", !.stmt = 0,
                                               !.conn = "none", !.orphan = {}])
                 ELSE BuildStep(b, [made EXCEPT !.stmt = @ + 1])

\* Lines 348-375: create the database, connect to it and execute the
\* statements of CreatedbSchema, one await at a time.
BuildCreate(b) == BuildCreateDatabase(b) \/ BuildConnect(b) \/ BuildExecute(b)

\* Lines 377-391: write the records to a sqlite3 process and wait for it.
\* spawn, write_all and wait can fail; the exit status of the process is
\* not looked at, and Ok(()) follows.  The second branch is a process that
\* fails before it has opened the file: a file that is missing stays missing.
BuildImport(b) ==
    LET rec == build[b]
        rows == DbRows(rec.doc)
    IN  /\ rec.pc = "import"
        /\ \/ /\ UNCHANGED dbfile
              /\ BuildStep(b, BuildRet([rec EXCEPT !.imp = "nospawn"], "err"))
           \/ /\ UNCHANGED dbfile
              /\ \/ BuildStep(b, BuildRet([rec EXCEPT !.imp = "pipefail"], "err"))
                 \/ BuildStep(b, BuildRet([rec EXCEPT !.imp = "exitfail"], "ok"))
           \/ \E sub \in SUBSET rows, h \in rows, oc \in {"ok", "exitfail", "pipefail"} :
                /\ oc = "ok" => sub = rows
                /\ (dbfile.exists /\ HasTable(dbfile, "pkgs")) =>
                      h = CHOOSE r \in rows : TRUE
                /\ dbfile' = Load(dbfile, "pkgs", sub, h)
                /\ BuildStep(b, BuildRet([rec EXCEPT !.imp = oc],
                                         IF oc = "pipefail" THEN "err" ELSE "ok"))

CreatedbStep(b) ==
    \/ BuildReturn(b)
    \/ BuildRemove(b)
    \/ BuildCreate(b)
    \/ BuildImport(b)

-----------------------------------------------------------------------------

InitCache ==
    /\ build = [b \in Builders |-> IdleBuild]
    /\ dbfile = NoArtifact
    /\ cycle = [p \in Procs |-> IdleCycle]
    /\ marker = NoMarker
    /\ artifact = NoArtifact
    /\ prev = NoPrev
    /\ calls = 0
    /\ optcall = IdleOptions
    /\ optmarker = NoMarker
    /\ optfile = NoFile

Init ==
    /\ InitCache
    /\ getpkgs = NoGetpkgs
    /\ conv = NoConv

CycleStep(p) ==
    \/ Return(p)
    \/ Resolve(p)
    \/ Check(p)
    \/ Fetch(p)
    \/ RemoveOld(p)
    \/ CreateStore(p)
    \/ Decode(p)
    \/ ImportPkgs(p)
    \/ ImportMeta(p)
    \/ WriteMarker(p)

\* Calls of nixospkgs() in succession.
Next == \E p \in Procs : Start(p) \/ CycleStep(p)

Spec == Init /\ [][Next]_vars

\* Calls of nixospkgs() and of nixosoptions() in succession.
NextCache ==
    \/ \E p \in Procs : Start(p) \/ CycleStep(p)
    \/ OptionsStep

SpecCache == Init /\ [][NextCache]_vars

\* Calls of nixospkgs() that may overlap.
NextConcurrent == \E p \in Procs : StartConcurrent(p) \/ CycleStep(p)

SpecConcurrent == Init /\ [][NextConcurrent]_vars

\* Calls of nixospkgs() and of createdb() in succession.
NextStores ==
    \/ \E p \in Procs : Start(p) \/ CycleStep(p)
    \/ \E b \in Builders : BuildStart(b) \/ CreatedbStep(b)

SpecStores == Init /\ [][NextStores]_vars

\* Calls of createdb() on one path that may overlap.
NextBuilds == \E b \in Builders : BuildStartConcurrent(b) \/ CreatedbStep(b)

SpecBuilds == Init /\ [][NextBuilds]_vars

\* Calls of getnixospkgs() on every list of sources and every store.
InitGetpkgs ==
    /\ InitCache
    /\ getpkgs \in { StartGetpkgs(paths, db) : paths \in PathLists, db \in Stores }
    /\ conv = NoConv

NextGetpkgs == Collect \/ OpenStore \/ Lookup \/ Finish

SpecGetpkgs == InitGetpkgs /\ [][NextGetpkgs]_vars

\* The conversions on every input.
InitConv ==
    /\ InitCache
    /\ getpkgs = NoGetpkgs
    /\ conv \in ConvInputs

NextConv == ConvMetaRow \/ ConvChannel \/ ConvLatest \/ ConvOptLatest

SpecConv == InitConv /\ [][NextConv]_vars

-----------------------------------------------------------------------------
(* Properties                                                              *)

IsPrefix(a, b) == Len(a) <= Len(b) /\ a = SubSeq(b, 1, Len(a))

\* The stages of a rebuild in the order of the statements of nixospkgs.
StageOrder == <<"fetch", "delete", "create", "decode", "pkgs", "meta", "marker">>

Malformed(rec) == rec.body # None /\ ~rec.body[1].wellformed

\* C1: the marker is written only after both imports succeeded (the process
\* started, received all records and exited normally).
C1_MarkerOnlyAfterImports ==
    \A p \in Procs :
        cycle[p].wrote => cycle[p].impPkgs = "ok" /\ cycle[p].impMeta = "ok"

\* C2: the call after a call that failed between the removal of the old
\* store and the write of the marker never takes the cache-hit path,
\* whatever version it resolves.
C2_RebuildAfterFailure ==
    \A p \in Procs :
        cycle[p].afterBroken => cycle[p].result # "hit"

\* C3: when the marker holds the resolved version and the store file exists,
\* the freshness check returns the path of the store: the call has issued no
\* fetch, has entered no stage of a rebuild, and leaves store and marker as
\* they are.
\* The same holds of nixosoptions and its two files.
C3_CacheHit ==
    [][/\ \A p \in Procs :
            (/\ cycle[p].pc = "check"
             /\ cycle'[p] # cycle[p]
             /\ marker.exists /\ marker.content = cycle[p].latest
             /\ artifact.exists)
            => (/\ cycle'[p].pc = "done" /\ cycle'[p].result = "hit"
                /\ cycle'[p].fetches = 0 /\ cycle'[p].trace = <<>>
                /\ marker' = marker /\ artifact' = artifact)
       /\ (/\ optcall.pc = "check"
           /\ optcall' # optcall
           /\ optmarker.exists /\ optmarker.content = optcall.latest
           /\ optfile.exists)
          => (/\ optcall'.pc = "done" /\ optcall'.result = "hit"
              /\ optcall'.fetches = 0
              /\ optmarker' = optmarker /\ optfile' = optfile)]_vars

C3_Witness ==
    /\ \E p \in Procs :
          /\ cycle[p].result = "hit" /\ cycle[p].fetches = 0
          /\ marker.content = VerA /\ cycle[p].latest = VerA
          /\ artifact.pkgs = PkgRows(Index(VerA))
    /\ optmarker.content = VerB /\ optfile.whole

\* C4: a call that finds the cache stale and in which no stage fails has
\* fetched once, gone through every stage of the rebuild, and returns the
\* path with the marker holding exactly the resolved version and the store
\* file present; a stale cache never takes the cache-hit path.
C4_StaleRebuild ==
    \A p \in Procs :
        LET r == cycle[p]
        IN  /\ (r.pc = "done" /\ r.result = "ok") =>
                 /\ r.staleBy # "none" /\ ~r.fresh
                 /\ r.fetches = 1 /\ r.trace = StageOrder
                 /\ marker.exists /\ marker.content = r.latest
                 /\ artifact.exists
            /\ (r.pc = "done" /\ r.result = "hit") =>
                 /\ r.staleBy = "none"
                 /\ marker.exists /\ marker.content = r.latest
                 /\ artifact.exists

C4_Witness ==
    \E p \in Procs :
        /\ cycle[p].pc = "done" /\ cycle[p].result = "ok"
        /\ cycle[p].staleBy = "mismatch"
        /\ cycle[p].latest = VerB /\ marker.content = VerB
        /\ artifact.pkgs = PkgRows(Index(VerB))

\* C5: every call that resolves a version has made exactly one
\* version-resolution call, and a call that resolves the version for which
\* the previous call returned a path fetches nothing and rebuilds nothing.
C5_Idempotent ==
    \A p \in Procs :
        LET r == cycle[p]
        IN  /\ r.latest # <<>> => r.resolves = 1
            /\ r.result \in {"ok", "hit"} => r.resolves = 1
            /\ r.afterSame =>
                 /\ r.fetches = 0 /\ r.trace = <<>>
                 /\ r.pc \in {"check", "done"}
                 /\ r.pc = "done" => r.result = "hit"

C5_Witness ==
    \E p \in Procs :
        /\ cycle[p].afterSame /\ cycle[p].pc = "done"
        /\ cycle[p].result = "hit" /\ cycle[p].resolves = 1

\* C6: the stages of a rebuild occur in the order fetch, decode,
\* schema-create, import of pkgs, import of meta, marker-write; the document
\* is decoded before the old store is removed and before the schema is
\* created.
C6_DecodeBeforeSchema ==
    \A p \in Procs :
        IsPrefix(cycle[p].trace,
                 <<"fetch", "decode", "delete", "create", "pkgs", "meta", "marker">>)

\* C7: nothing keeps two calls apart.  While one call is between its
\* removal of the store and its marker write, the other call is never made
\* to wait at its own delete, create or import step: it can remove the
\* store the first call works on, create the file, and run each import to
\* a normal exit.
C7_NoMutualExclusion ==
    \A p, q \in Procs :
        (p # q /\ InWindow(cycle[p])) =>
            /\ (cycle[q].pc = "delete" /\ artifact.exists) =>
                  ENABLED (RemoveOld(q) /\ ~artifact'.exists)
            /\ cycle[q].pc = "create" =>
                  ENABLED (CreateDatabase(q) /\ artifact'.exists)
            /\ cycle[q].pc = "pkgs" =>
                  ENABLED (ImportPkgs(q) /\ cycle'[q].impPkgs = "ok")
            /\ cycle[q].pc = "meta" =>
                  ENABLED (ImportMeta(q) /\ cycle'[q].impMeta = "ok")

\* One call has removed the store while the other was importing into it:
\* the other call's imports failed without making the file, it wrote its
\* marker and returned Ok, and no store is at the path.
C7_Witness ==
    \E p, q \in Procs :
        /\ p # q
        /\ cycle[p].pc = "done" /\ cycle[p].result = "ok" /\ cycle[p].wrote
        /\ cycle[p].overlapped /\ ~cycle[p].complete
        /\ cycle[p].impPkgs = "exitfail" /\ cycle[p].impMeta = "exitfail"
        /\ cycle[q].removed /\ cycle[q].pc = "create"
        /\ ~artifact.exists
        /\ marker.exists /\ marker.content = cycle[p].latest

\* Both calls import into one file: a marker is written over a store that
\* holds rows of both documents although both imports of the call succeeded.
C7_MixedRows ==
    \E p \in Procs :
        /\ cycle[p].wrote /\ cycle[p].result = "ok"
        /\ cycle[p].impPkgs = "ok" /\ cycle[p].impMeta = "ok"
        /\ cycle[p].overlapped /\ ~cycle[p].complete
        /\ marker.content = cycle[p].latest
        /\ \E a \in PkgRows(Index(VerA)), b \in PkgRows(Index(VerB)) :
              {a, b} \subseteq artifact.pkgs

\* The union of the sets of the sources, an unreadable or unparsable source
\* counting as the empty set.
UnionOf(paths) ==
    UNION { IF paths[i].readable /\ paths[i].vals # None
            THEN ToSet(paths[i].vals[1]) ELSE {} : i \in 1..Len(paths) }

\* C8: the collection never aborts on a bad source and yields the union of
\* the sets of the sources, a bad source counting as the empty set.
C8_UnionLaw ==
    /\ getpkgs.failed # "collect"
    /\ (getpkgs.pc # "collect" \/ getpkgs.i > Len(getpkgs.paths))
         => getpkgs.allpkgs = UnionOf(getpkgs.paths)

\* C9: the mapping returned holds an entry for a declared identifier exactly
\* when one row of pkgs has that attribute, the value being the version of
\* that row; every other identifier is left out without an error.
C9_QueryResolver ==
    LET g == getpkgs
    IN  (g.pc = "done" /\ g.result = "ok") =>
          /\ \A e \in g.out : e[1] \in g.allpkgs
          /\ \A id \in g.allpkgs :
               LET rows == { r \in g.db : r[1] = id }
               IN  IF Cardinality(rows) = 1
                   THEN { e \in g.out : e[1] = id } = { <<id, r[3]>> : r \in rows }
                   ELSE { e \in g.out : e[1] = id } = {}

C9_Witness ==
    /\ getpkgs.pc = "done" /\ getpkgs.result = "ok"
    /\ getpkgs.allpkgs = {"pkgA", "pkgB", "pkgC"}
    /\ Cardinality({ r \in getpkgs.db : r[1] = "pkgB" }) = 2
    /\ getpkgs.out = {<<"pkgA", "1.0">>}

\* C10: a body that does not decode ends the call with an error value
\* returned to the caller; no record is imported and no marker is written.
C10_DecodeError ==
    \A p \in Procs :
        LET r == cycle[p]
        IN  (r.pc = "done" /\ Malformed(r) /\ r.trace = <<"fetch", "delete", "create", "decode">>)
            => /\ r.result = "err"
               /\ r.impPkgs = "none" /\ r.impMeta = "none"
               /\ ~r.wrote

\* C11: a call of createdb or of nixospkgs returns Ok only when every import
\* it ran started, took all records and exited normally; an import that
\* fails to start or exits abnormally makes the call return an error.
C11_ImportFailureIsError ==
    /\ \A p \in Procs :
          cycle[p].result = "ok" =>
              cycle[p].impPkgs = "ok" /\ cycle[p].impMeta = "ok"
    /\ \A b \in Builders : build[b].result = "ok" => build[b].imp = "ok"

\* C12: a call that ends at the version resolution (no final location, or a
\* location without a last segment) or at the index fetch (no response, or
\* a non-success status) returns an error, and the store file and the
\* marker file are as they were when the call started: the failing step
\* leaves them alone and no earlier step of the call has changed them.
C12_EarlyFailureKeepsFiles ==
    [][\A p \in Procs :
          /\ (cycle[p].pc \in {"idle", "resolve", "check", "fetch"}
                 /\ cycle'[p] # cycle[p])
             => marker' = marker /\ artifact' = artifact
          /\ (cycle[p].pc \in {"resolve", "fetch"} /\ cycle'[p].pc = "done")
             => /\ cycle'[p].result = "err"
                /\ ~cycle'[p].dirtyStore /\ ~cycle'[p].dirtyMarker
                /\ ~cycle'[p].removed /\ ~cycle'[p].wrote]_vars

C12_Witness ==
    \E p \in Procs :
        /\ cycle[p].pc = "done" /\ cycle[p].result = "err"
        /\ cycle[p].trace = <<"fetch">> /\ cycle[p].staleBy = "mismatch"
        /\ ~cycle[p].dirtyStore /\ ~cycle[p].dirtyMarker
        /\ marker.content = VerA
        /\ artifact.pkgs = PkgRows(Index(VerA))

\* C13: a call that ends in an error after it has removed the old store
\* leaves the content of the marker file as it was when the call started.
C13_FailureKeepsMarker ==
    \A p \in Procs :
        LET r == cycle[p]
        IN  (r.pc = "done" /\ r.result \in {"err", "panic"} /\ r.removed)
            => ~r.dirtyMarker

\* C14: in the record of the meta import of an entry, each of broken,
\* insecure, unsupported and unfree is 1 when the value is true and 0 when
\* it is false or absent; homepage is the first element of a list, the
\* string itself for a single string, and empty when it is absent (or the
\* list is empty); description, longdescription, position and the JSON
\* fields are empty when absent, and the text or its JSON when present.
C14_MetaRowTransform ==
    (conv.pc = "out" /\ conv.fn = "metarow") =>
        LET m == conv.arg.meta
            row == conv.out
            Bit(o) == IF o = <<TRUE>> THEN 1 ELSE 0
            Text(o) == IF o = <<>> THEN "" ELSE o[1]
        IN  /\ Len(row) = 12 /\ row[1] = "pkgA"
            /\ row[2] = Bit(m.broken) /\ row[3] = Bit(m.insecure)
            /\ row[4] = Bit(m.unsupported) /\ row[5] = Bit(m.unfree)
            /\ row[6] = Text(m.description)
            /\ row[7] = Text(m.longdescription)
            /\ row[10] = Text(m.position)
            /\ row[8] = IF m.homepage = <<>> THEN ""
                        ELSE IF m.homepage[1].kind = "Single"
                             THEN m.homepage[1].text
                             ELSE IF m.homepage[1].items = <<>> THEN ""
                                  ELSE m.homepage[1].items[1]
            /\ (m.maintainers = <<>>) <=> (row[9] = "")
            /\ (m.license = <<>>) <=> (row[11] = "")
            /\ (m.platforms = <<>>) <=> (row[12] = "")

C14_Witness ==
    /\ conv.pc = "out" /\ conv.fn = "metarow"
    /\ conv.arg.meta.broken = <<>>
    /\ conv.arg.meta.unfree = <<TRUE>>
    /\ conv.arg.meta.homepage =
          <<[kind |-> "List", items |-> <<"https://x", "https://y">>]>>
    /\ conv.out[2] = 0 /\ conv.out[5] = 1
    /\ conv.out[8] = "https://x"

\* C15: a rebuild is from scratch.  When a call of nixospkgs or of createdb
\* returns Ok and its import of pkgs succeeded, the pkgs table holds exactly
\* one row per entry of the decoded document, with the attribute, the pname
\* and the version of the entry, whatever the file held before the call;
\* no row of the file that was removed is left unless the document has it.
C15_RebuildFromScratch ==
    [][/\ \A p \in Procs :
            (/\ cycle[p].pc = "marker" /\ cycle'[p].result = "ok"
             /\ cycle[p].impPkgs = "ok")
            => LET doc == cycle[p].doc
               IN  /\ artifact'.pkgs =
                         { <<k, doc[k].system, doc[k].pname, doc[k].version>> :
                             k \in DOMAIN doc }
                   /\ Cardinality(artifact'.pkgs) = Cardinality(DOMAIN doc)
       /\ \A b \in Builders :
            (/\ build[b].pc = "import" /\ build'[b].result = "ok"
             /\ build'[b].imp = "ok")
            => LET doc == build[b].doc
                   rows == { <<k, doc[k].pname, doc[k].version>> : k \in DOMAIN doc }
               IN  /\ dbfile'.pkgs = rows
                   /\ Cardinality(dbfile'.pkgs) = Cardinality(DOMAIN doc)
                   /\ dbfile'.pkgs \cap (build[b].old \ rows) = {}]_vars

C15_Witness ==
    /\ \E b \in Builders :
          /\ build[b].pc = "done" /\ build[b].result = "ok"
          /\ build[b].imp = "ok" /\ build[b].removed
          /\ build[b].old = {<<"pkgA", "a", "1.0">>, <<"pkgB", "b", "2.0">>}
    /\ dbfile.pkgs = {<<"pkgA", "a", "1.1">>}
    /\ marker.content = VerB
    /\ artifact.pkgs = {<<"pkgA", "aarch64-linux", "a", "1.1">>}

\* C16: the channel of an output of nixos-version is "unstable" when its
\* first five characters are "22.11" and these five characters otherwise;
\* the remote version that nixospkgs and nixosoptions resolve is the last
\* path segment of the final location without the prefix "nixos-".
C16_ReleaseNormalization ==
    (conv.pc = "out" /\ ~conv.failed) =>
        /\ conv.fn = "channel" =>
              LET first == SubSeq(conv.arg, 1, 5)
              IN  conv.out = IF first = <<"2", "2", ".", "1", "1">>
                             THEN <<"u", "n", "s", "t", "a", "b", "l", "e">>
                             ELSE first
        /\ conv.fn \in {"latest", "optlatest"} =>
              LET seg == conv.arg.segs[Len(conv.arg.segs)]
                  pre == <<"n", "i", "x", "o", "s", "-">>
              IN  conv.out = IF Len(seg) >= 6 /\ SubSeq(seg, 1, 6) = pre
                             THEN SubSeq(seg, 7, Len(seg))
                             ELSE seg

\* C17: the schema a rebuild creates, in nixospkgs and in createdb, has a
\* unique index on the attribute column of pkgs and a non-unique index on
\* its pname column.
C17_SchemaIndexes ==
    LET Indexed(schema, col, uniq) ==
            \E o \in schema : /\ o.kind = "index" /\ o.tbl = "pkgs"
                              /\ o.column = col /\ o.unique = uniq
        Both(schema) == /\ Indexed(schema, "attribute", TRUE)
                        /\ Indexed(schema, "pname", FALSE)
    IN  /\ \A p \in Procs :
              cycle[p].pc \in {"decode", "pkgs", "meta", "marker"}
              => Both(artifact.schema)
        /\ \A b \in Builders :
              (build[b].pc = "import" \/ (build[b].pc = "done" /\ build[b].result = "ok"))
              => Both(dbfile.schema)

\* C18: over any sequence of calls, failed ones included, a call that
\* returns the path through the cache-hit path returns a store that was
\* completely loaded: both tables hold every row of one index document
\* (and the options file was written whole); a partially built or empty
\* store is never returned as fresh.
C18_HitMeansLoaded ==
    /\ \A p \in Procs :
          (cycle[p].pc = "done" /\ cycle[p].result = "hit")
          => /\ artifact.exists
             /\ \E v \in {VerA, VerB} :
                   /\ artifact.pkgs = PkgRows(Index(v))
                   /\ artifact.meta = MetaRows(Index(v))
    /\ (optcall.pc = "done" /\ optcall.result = "hit")
       => optfile.exists /\ optfile.whole

\* C19: a marker file that is missing (read_to_string returns Err) is never
\* an error of the call: the freshness check of nixospkgs and of
\* nixosoptions goes on to the fetch, whether or not the store file
\* exists, and such a call never takes the cache-hit path; when it returns
\* Ok it has fetched once and gone through every stage of the rebuild.
C19_MissingMarkerIsStale ==
    [][/\ \A p \in Procs :
            /\ (cycle[p].pc = "check" /\ cycle'[p] # cycle[p] /\ ~marker.exists)
               => /\ cycle'[p].pc = "fetch" /\ cycle'[p].result = "none"
                  /\ cycle'[p].staleBy = "nomarker"
            /\ cycle'[p].staleBy = "nomarker"
               => /\ cycle'[p].result # "hit"
                  /\ cycle'[p].result = "ok"
                     => cycle'[p].fetches = 1 /\ cycle'[p].trace = StageOrder
       /\ (optcall.pc = "check" /\ optcall' # optcall /\ ~optmarker.exists)
          => optcall'.pc = "fetch" /\ optcall'.result = "none"]_vars

C19_Witness ==
    /\ \E p \in Procs :
          /\ cycle[p].pc = "done" /\ cycle[p].result = "ok"
          /\ cycle[p].staleBy = "nomarker" /\ cycle[p].removed
          /\ cycle[p].trace = StageOrder
    /\ optmarker.exists /\ optfile.whole

====
